---- MODULE Spec2Model ----
(***************************************************************************)
(* Model of the prow plugins `milestone` (prow/plugins/milestone) and      *)
(* `milestonestatus` (prow/plugins/milestonestatus).                       *)
(*                                                                         *)
(* A Go string that the code parses (a comment body, a milestone title) is *)
(* a sequence of tokens; a token is a keyword, one whitespace character or *)
(* a word without whitespace.  Strings the code only passes along (logins, *)
(* organisation, team slug) are atoms.                                     *)
(***************************************************************************)
EXTENDS Integers, Sequences, FiniteSets, TLC

VARIABLES plugin, e, repoMilestone, calls, err, history

vars == <<plugin, e, repoMilestone, calls, err, history>>

-----------------------------------------------------------------------------
(* Bounds of the model *)

\* longest body enumerated token by token
MaxBodyLen == 3
\* most /status command lines in a body made of whole command lines
MaxLines == 2
\* longest list of milestones the ListMilestones fake returns
MaxMilestones == 2
\* most events in a recorded sequence of events (SpecSeq)
MaxEvents == 2

-----------------------------------------------------------------------------
(* Strings *)

SP == " "
NL == "\n"
\* the back-tick character
BQ == "<backtick>"

\* regexp \s over the tokens of the model
IsSpace(t) == t \in {SP, NL}

Range(s) == {s[i] : i \in 1..Len(s)}

SeqsUpTo(S, n) == UNION {[1..k -> S] : k \in 0..n}

Min(S) == CHOOSE x \in S : \A y \in S : x <= y
Max(S) == CHOOSE x \in S : \A y \in S : x >= y

\* the bytes of a token, for the byte-wise order of Go strings
Bytes(t) ==
  CASE t = BQ       -> <<96>>
    [] t = SP       -> <<32>>
    [] t = NL       -> <<10>>
    [] t = "clear"  -> <<99, 108, 101, 97, 114>>
    [] t = "v1.1"   -> <<118, 49, 46, 49>>
    [] t = "v1.10"  -> <<118, 49, 46, 49, 48>>

RECURSIVE Flatten(_)
Flatten(s) == IF s = <<>> THEN <<>> ELSE Bytes(Head(s)) \o Flatten(Tail(s))

\* the order < of Go strings: byte-wise lexicographic
RECURSIVE BytesLess(_, _)
BytesLess(a, b) ==
  IF b = <<>> THEN FALSE
  ELSE IF a = <<>> THEN TRUE
  ELSE IF Head(a) # Head(b) THEN Head(a) < Head(b)
  ELSE BytesLess(Tail(a), Tail(b))

StringLess(s, t) == BytesLess(Flatten(s), Flatten(t))

\* strings.Join
RECURSIVE Join(_, _)
Join(elems, sep) ==
  IF elems = <<>> THEN <<>>
  ELSE IF Len(elems) = 1 THEN elems[1]
  ELSE elems[1] \o sep \o Join(Tail(elems), sep)

\* sort.Strings on a slice whose elements are the members of S, in any order
RECURSIVE SortStrings(_)
SortStrings(S) ==
  IF S = {} THEN <<>>
  ELSE LET m == CHOOSE x \in S : \A y \in S \ {x} : StringLess(x, y)
       IN <<m>> \o SortStrings(S \ {m})

\* strings.TrimSpace
RECURSIVE TrimLeft(_)
TrimLeft(s) == IF s # <<>> /\ IsSpace(Head(s)) THEN TrimLeft(Tail(s)) ELSE s

RECURSIVE TrimRight(_)
TrimRight(s) ==
  IF s # <<>> /\ IsSpace(s[Len(s)]) THEN TrimRight(SubSeq(s, 1, Len(s) - 1)) ELSE s

TrimSpace(s) == TrimRight(TrimLeft(s))

\* strings.ToLower on the logins of the model
ToLower(s) ==
  CASE s \in {"alice", "Alice", "ALICE"} -> "alice"
    [] s \in {"bob", "Bob"}              -> "bob"
    [] s \in {"carol"}                   -> "carol"
    [] OTHER                             -> s

-----------------------------------------------------------------------------
(* Regular expressions *)

\* (?m)^ : at the start of the text or right after a newline
AtLineStart(b, i) == i = 1 \/ b[i - 1] = NL

\* (?m)$ : after position p, at the end of the text or right before a newline
AtLineEnd(b, p) == p = Len(b) \/ b[p + 1] = NL

\* number of whitespace tokens of b from position i on
RECURSIVE SpaceRun(_, _)
SpaceRun(b, i) ==
  IF i <= Len(b) /\ IsSpace(b[i]) THEN 1 + SpaceRun(b, i + 1) ELSE 0

\* last position of the line that position g lies in
RECURSIVE LineEnd(_, _)
LineEnd(b, g) == IF AtLineEnd(b, g) THEN g ELSE LineEnd(b, g + 1)

\* Where the group after `keyword\s+` starts when the keyword is at position
\* i: \s+ is greedy and gives back whitespace until `.` can match, and `.`
\* matches anything but a newline.  0: no match at i.
GroupStart(b, i) ==
  LET R  == SpaceRun(b, i + 1)
      Ms == {m \in 1..R : i + 1 + m <= Len(b) /\ b[i + 1 + m] # NL}
  IN IF Ms = {} THEN 0 ELSE i + 1 + Max(Ms)

\* positions at which the pattern `^keyword\s+(.+...)` matches
MatchStarts(b, keyword) ==
  {i \in 1..Len(b) : AtLineStart(b, i) /\ b[i] = keyword /\ GroupStart(b, i) # 0}

\* (.+?)\s*$ from g: the shortest group after which only whitespace is left
\* on the line
LazyGroupEnd(b, g) ==
  Min({h \in g..LineEnd(b, g) :
         \A k \in (h + 1)..LineEnd(b, g) : IsSpace(b[k])})

\* milestoneRegex.FindStringSubmatch(body): <<>> (nil) or <<match, group 1>>;
\* only group 1 is used by the code, the whole match is kept from the keyword
\* to the end of the group.
milestoneRegex(body) ==
  LET starts == MatchStarts(body, "/milestone")
  IN IF starts = {} THEN <<>>
     ELSE LET i == Min(starts)
              g == GroupStart(body, i)
              h == LazyGroupEnd(body, g)
          IN <<SubSeq(body, i, h), SubSeq(body, g, h)>>

\* statusRegex.FindAllStringSubmatch(body, -1) searching from position `from`:
\* the non-overlapping matches left to right, each <<match, group 1>>; (.+)
\* is greedy and runs to the end of the line.
RECURSIVE statusRegexFrom(_, _)
statusRegexFrom(body, from) ==
  LET starts == {i \in MatchStarts(body, "/status") : i >= from}
  IN IF starts = {} THEN <<>>
     ELSE LET i == Min(starts)
              g == GroupStart(body, i)
              h == LineEnd(body, g)
          IN <<<<SubSeq(body, i, h), SubSeq(body, g, h)>>>>
               \o statusRegexFrom(body, h + 1)

statusRegex(body) == statusRegexFrom(body, 1)

-----------------------------------------------------------------------------
(* Values of the github and plugins packages that the handlers use *)

GenericCommentActionCreated == "created"
RoleAll == "all"
nil == "nil"

\* plugins.Milestone, and its zero value (what a Go map returns for a key it
\* does not hold)
Milestone(id, team, friendly) ==
  [MaintainersID |-> id, MaintainersTeam |-> team,
   MaintainersFriendlyName |-> friendly]

ZeroMilestone == Milestone(0, "", "")

\* fmt.Sprintf("%s/%s", org, repo); the default entry has the key ""
RepoKey(org, repo) == <<org, "/", repo>>
DefaultKey == <<>>

\* m[k] of a Go map: the zero value when k is not a key
MapGet(m, k) == IF k \in DOMAIN m THEN m[k] ELSE ZeroMilestone

\* Faulty variant of lookupMilestone: the default entry is taken when there is
\* one
lookupMilestone_defaultFirst(repoMilestone_, org, repo) ==
  IF DefaultKey \in DOMAIN repoMilestone_
  THEN repoMilestone_[DefaultKey]
  ELSE MapGet(repoMilestone_, RepoKey(org, repo))

\* repoMilestone[org/repo], falling back to repoMilestone[""]
\* (milestone.go 111-115, milestonestatus.go 104-108)
lookupMilestone(repoMilestone_, org, repo) ==
  IF RepoKey(org, repo) \in DOMAIN repoMilestone_
  THEN repoMilestone_[RepoKey(org, repo)]
  ELSE MapGet(repoMilestone_, DefaultKey)

\* github.NormLogin: the canonical form of a login
NormLogin(login) == ToLower(login)

\* plugins.FormatResponseRaw: a reply that quotes the comment it answers
FormatResponseRaw(body, bodyURL, login, reply) ==
  [kind |-> "response", text |-> reply, body |-> body, url |-> bodyURL,
   login |-> login]

\* a string posted as it is
Plain(msg) == [kind |-> "plain", text |-> msg]

-----------------------------------------------------------------------------
(* The calls on githubClient, with the result the client gave *)

CallListBySlug(org, teamSlug, role, r) ==
  [op |-> "ListTeamMembersBySlug", org |-> org, teamSlug |-> teamSlug,
   role |-> role, list |-> r.list, err |-> r.err]

\* the call with the numeric id (milestone.go 173, milestonestatus.go 144)
CallListByID(org, id, role, r) ==
  [op |-> "ListTeamMembersBySlug", org |-> org, id |-> id, role |-> role,
   list |-> r.list, err |-> r.err]

CallListMilestones(org, repo, r) ==
  [op |-> "ListMilestones", org |-> org, repo |-> repo, list |-> r.list,
   err |-> r.err]

CallCreateComment(org, repo, number, comment, r) ==
  [op |-> "CreateComment", org |-> org, repo |-> repo, number |-> number,
   comment |-> comment, err |-> r]

CallClearMilestone(org, repo, num, r) ==
  [op |-> "ClearMilestone", org |-> org, repo |-> repo, number |-> num,
   err |-> r]

CallSetMilestone(org, repo, issueNum, milestoneNum, r) ==
  [op |-> "SetMilestone", org |-> org, repo |-> repo, number |-> issueNum,
   milestoneNum |-> milestoneNum, err |-> r]

CallAddLabel(org, repo, number, label, r) ==
  [op |-> "AddLabel", org |-> org, repo |-> repo, number |-> number,
   label |-> label, err |-> r]

\* the result of the k-th mutation call of an invocation
MutationResult(gc, k, failure) == IF k \in gc.failing THEN failure ELSE nil

\* what handle returns: the calls it made, in order, and its error
Ret(cs, er) == [calls |-> cs, err |-> er]

-----------------------------------------------------------------------------
(* package milestone *)

clearKeyword == <<"clear">>

\* fmt.Sprintf(mustBeAuthorized, org, team, org, team, friendlyName)
milestone_mustBeAuthorized(org, team, friendly) ==
  <<"You must be a member of the [", org, "/", team,
    "](https://github.com/orgs/", org, "/teams/", team,
    "/members) GitHub team to set the milestone. If you believe you should be able to issue the /milestone command, please contact your ",
    friendly,
    " and have them propose you as an additional delegate for this responsibility.">>

\* fmt.Sprintf(invalidMilestone, list, clearKeyword)
invalidMilestone(list, keyword) ==
  <<"The provided milestone is not valid for this repository. Milestones in this repository: [">>
    \o list
    \o <<"]\n\nUse ", BQ, "/milestone ">> \o keyword
    \o <<BQ, " to clear the milestone.">>

\* m[k] = v
MapPut(m, k, v) == [x \in DOMAIN m \cup {k} |-> IF x = k THEN v ELSE m[x]]

\* Faulty variant of BuildMilestoneMap: the first milestone of a title wins
RECURSIVE BuildMilestoneMap_firstWins(_)
BuildMilestoneMap_firstWins(milestones) ==
  IF milestones = <<>> THEN <<>>
  ELSE LET m == BuildMilestoneMap_firstWins(
                  SubSeq(milestones, 1, Len(milestones) - 1))
           l == milestones[Len(milestones)]
       IN IF l.Title \in DOMAIN m THEN m ELSE MapPut(m, l.Title, l.Number)

\* Faulty variant of BuildMilestoneMap: the map holds the last milestone alone
BuildMilestoneMap_lastOnly(milestones) ==
  IF milestones = <<>> THEN <<>>
  ELSE MapPut(<<>>, milestones[Len(milestones)].Title,
              milestones[Len(milestones)].Number)

RECURSIVE BuildMilestoneMapFrom(_, _)
BuildMilestoneMapFrom(m, milestones) ==
  IF milestones = <<>> THEN m
  ELSE BuildMilestoneMapFrom(
         MapPut(m, Head(milestones).Title, Head(milestones).Number),
         Tail(milestones))

BuildMilestoneMap(milestones) == BuildMilestoneMapFrom(<<>>, milestones)

milestone_determineMaintainers(gc, milestone, org) ==
  IF milestone.MaintainersTeam # ""
  THEN [call    |-> CallListBySlug(org, milestone.MaintainersTeam, RoleAll, gc.members),
        members |-> gc.members.list, err |-> gc.members.err]
  ELSE [call    |-> CallListByID(org, milestone.MaintainersID, RoleAll, gc.members),
        members |-> gc.members.list, err |-> gc.members.err]

\* Faulty variant of milestone_found: the logins are compared as they are
\* written
milestone_found_exact(milestoneMaintainers, login) ==
  \E i \in 1..Len(milestoneMaintainers) :
     milestoneMaintainers[i].Login = login

\* the loop over milestoneMaintainers (milestone.go 120-127)
milestone_found(milestoneMaintainers, login) ==
  \E i \in 1..Len(milestoneMaintainers) :
     NormLogin(milestoneMaintainers[i].Login) = NormLogin(login)

\* Faulty variant of milestone_options: the titles are sorted, then put in
\* back-ticks
milestone_options_sortTitles(milestoneMap) ==
  LET sorted == SortStrings(DOMAIN milestoneMap)
  IN Join([i \in 1..Len(sorted) |-> <<BQ>> \o sorted[i] \o <<BQ>>], <<", ">>)

\* the options of the rejection (milestone.go 152-158): every key of the map
\* in back-ticks, sorted, joined with ", "
milestone_options(milestoneMap) ==
  Join(SortStrings({<<BQ>> \o k \o <<BQ>> : k \in DOMAIN milestoneMap}),
       <<", ">>)

\* Faulty variant of milestone_set: the result of CreateComment is dropped
milestone_set_dropCommentError(gc, ev, org, repo, milestones, proposedMilestone) ==
  LET milestoneMap == BuildMilestoneMap(milestones)
  IN IF proposedMilestone \notin DOMAIN milestoneMap
     THEN Ret(<<CallCreateComment(org, repo, ev.Number,
                  FormatResponseRaw(ev.Body, ev.HTMLURL, ev.User,
                    invalidMilestone(milestone_options(milestoneMap),
                                     clearKeyword)),
                  gc.commentErr)>>,
              nil)
     ELSE Ret(<<CallSetMilestone(org, repo, ev.Number,
                  milestoneMap[proposedMilestone],
                  MutationResult(gc, 1, "error: SetMilestone"))>>,
              nil)

\* Faulty variant of milestone_set: the error of SetMilestone is returned
milestone_set_returnError(gc, ev, org, repo, milestones, proposedMilestone) ==
  LET milestoneMap == BuildMilestoneMap(milestones)
  IN IF proposedMilestone \notin DOMAIN milestoneMap
     THEN Ret(<<CallCreateComment(org, repo, ev.Number,
                  FormatResponseRaw(ev.Body, ev.HTMLURL, ev.User,
                    invalidMilestone(milestone_options(milestoneMap),
                                     clearKeyword)),
                  gc.commentErr)>>,
              gc.commentErr)
     ELSE Ret(<<CallSetMilestone(org, repo, ev.Number,
                  milestoneMap[proposedMilestone],
                  MutationResult(gc, 1, "error: SetMilestone"))>>,
              MutationResult(gc, 1, "error: SetMilestone"))

\* handle from the lookup of the title on (milestone.go 149-166)
milestone_set(gc, ev, org, repo, milestones, proposedMilestone) ==
  LET milestoneMap == BuildMilestoneMap(milestones)
  IN IF proposedMilestone \notin DOMAIN milestoneMap
     THEN Ret(<<CallCreateComment(org, repo, ev.Number,
                  FormatResponseRaw(ev.Body, ev.HTMLURL, ev.User,
                    invalidMilestone(milestone_options(milestoneMap),
                                     clearKeyword)),
                  gc.commentErr)>>,
              gc.commentErr)
     ELSE Ret(<<CallSetMilestone(org, repo, ev.Number,
                  milestoneMap[proposedMilestone],
                  MutationResult(gc, 1, "error: SetMilestone"))>>,
              nil)

\* Faulty variant of milestone_apply: the clear keyword is looked at before
\* the milestones are listed
milestone_apply_clearBeforeList(gc, ev, org, repo, proposedMilestone) ==
  LET list == CallListMilestones(org, repo, gc.milestones)
  IN IF proposedMilestone = clearKeyword
     THEN Ret(<<CallClearMilestone(org, repo, ev.Number,
                  MutationResult(gc, 1, "error: ClearMilestone"))>>, nil)
     ELSE IF gc.milestones.err # nil THEN Ret(<<list>>, gc.milestones.err)
     ELSE LET r == milestone_set(gc, ev, org, repo, gc.milestones.list,
                                 proposedMilestone)
          IN Ret(<<list>> \o r.calls, r.err)

\* Faulty variant of milestone_apply: the clear keyword is looked up like a
\* title
milestone_apply_noClearCase(gc, ev, org, repo, proposedMilestone) ==
  LET list == CallListMilestones(org, repo, gc.milestones)
  IN IF gc.milestones.err # nil THEN Ret(<<list>>, gc.milestones.err)
     ELSE IF proposedMilestone = clearKeyword
             /\ clearKeyword \notin DOMAIN BuildMilestoneMap(gc.milestones.list)
     THEN Ret(<<list, CallClearMilestone(org, repo, ev.Number,
                       MutationResult(gc, 1, "error: ClearMilestone"))>>, nil)
     ELSE LET r == milestone_set(gc, ev, org, repo, gc.milestones.list,
                                 proposedMilestone)
          IN Ret(<<list>> \o r.calls, r.err)

\* Faulty variant of milestone_apply: a failed listing is taken for an empty
\* list
milestone_apply_ignoreListError(gc, ev, org, repo, proposedMilestone) ==
  LET list == CallListMilestones(org, repo, gc.milestones)
  IN IF proposedMilestone = clearKeyword
     THEN Ret(<<list, CallClearMilestone(org, repo, ev.Number,
                       MutationResult(gc, 1, "error: ClearMilestone"))>>, nil)
     ELSE LET r == milestone_set(gc, ev, org, repo, gc.milestones.list,
                                 proposedMilestone)
          IN Ret(<<list>> \o r.calls, r.err)

\* handle once the requester is found to be a maintainer: the listing of the
\* milestones and the clear keyword (milestone.go 134-147)
milestone_apply(gc, ev, org, repo, proposedMilestone) ==
  LET list == CallListMilestones(org, repo, gc.milestones)
  IN IF gc.milestones.err # nil THEN Ret(<<list>>, gc.milestones.err)
     ELSE IF proposedMilestone = clearKeyword
     THEN Ret(<<list, CallClearMilestone(org, repo, ev.Number,
                       MutationResult(gc, 1, "error: ClearMilestone"))>>, nil)
     ELSE LET r == milestone_set(gc, ev, org, repo, gc.milestones.list,
                                 proposedMilestone)
          IN Ret(<<list>> \o r.calls, r.err)

\* Faulty variant of milestone_authorize: the requester is not looked for
\* among the maintainers
milestone_authorize_unchecked(gc, ev, repoMilestone_, milestoneMatch) ==
  LET org       == ev.Org
      repo      == ev.Repo
      milestone == lookupMilestone(repoMilestone_, org, repo)
      dm        == milestone_determineMaintainers(gc, milestone, org)
  IN IF dm.err # nil THEN Ret(<<dm.call>>, dm.err)
     ELSE LET r == milestone_apply(gc, ev, org, repo, milestoneMatch[2])
          IN Ret(<<dm.call>> \o r.calls, r.err)

\* handle once the command is matched: the maintainers and the requester
\* (milestone.go 108-132)
milestone_authorize(gc, ev, repoMilestone_, milestoneMatch) ==
  LET org       == ev.Org
      repo      == ev.Repo
      milestone == lookupMilestone(repoMilestone_, org, repo)
      dm        == milestone_determineMaintainers(gc, milestone, org)
  IN IF dm.err # nil THEN Ret(<<dm.call>>, dm.err)
     ELSE IF ~milestone_found(dm.members, ev.User)
     THEN Ret(<<dm.call,
                CallCreateComment(org, repo, ev.Number,
                  FormatResponseRaw(ev.Body, ev.HTMLURL, ev.User,
                    milestone_mustBeAuthorized(org, milestone.MaintainersTeam,
                      milestone.MaintainersFriendlyName)),
                  gc.commentErr)>>,
              gc.commentErr)
     ELSE LET r == milestone_apply(gc, ev, org, repo, milestoneMatch[2])
          IN Ret(<<dm.call>> \o r.calls, r.err)

\* handle of package milestone: the event and the command (milestone.go 98-106)
milestone_handle(gc, ev, repoMilestone_) ==
  IF ev.Action # GenericCommentActionCreated THEN Ret(<<>>, nil)
  ELSE LET milestoneMatch == milestoneRegex(ev.Body)
       IN IF Len(milestoneMatch) # 2 THEN Ret(<<>>, nil)
          ELSE milestone_authorize(gc, ev, repoMilestone_, milestoneMatch)

-----------------------------------------------------------------------------
(* package milestonestatus *)

\* Faulty variant of milestonestatus_mustBeAuthorized: the organisation is
\* passed for the friendly name
milestonestatus_mustBeAuthorized_orgForRole(org, team, friendly) ==
  <<"You must be a member of the [", org, "/", team,
    "](https://github.com/orgs/", org, "/teams/", team,
    "/members) GitHub team to add status labels. If you believe you should be able to issue the /status command, please contact your ",
    org,
    " and have them propose you as an additional delegate for this responsibility.">>

\* fmt.Sprintf(mustBeAuthorized, org, team, org, team, friendlyName)
milestonestatus_mustBeAuthorized(org, team, friendly) ==
  <<"You must be a member of the [", org, "/", team,
    "](https://github.com/orgs/", org, "/teams/", team,
    "/members) GitHub team to add status labels. If you believe you should be able to issue the /status command, please contact your ",
    friendly,
    " and have them propose you as an additional delegate for this responsibility.">>

\* the keys of statusMap
statusKeys ==
  {<<"approved-for-milestone">>, <<"in-progress">>, <<"in-review">>}

\* statusMap[key] for a key of statusMap
statusMap(key) ==
  CASE key = <<"approved-for-milestone">> -> <<"status/", "approved-for-milestone">>
    [] key = <<"in-progress">>            -> <<"status/", "in-progress">>
    [] key = <<"in-review">>              -> <<"status/", "in-review">>

milestonestatus_determineMaintainers(gc, milestone, org) ==
  IF milestone.MaintainersTeam # ""
  THEN [call    |-> CallListBySlug(org, milestone.MaintainersTeam, RoleAll, gc.members),
        members |-> gc.members.list, err |-> gc.members.err]
  ELSE [call    |-> CallListByID(org, milestone.MaintainersID, RoleAll, gc.members),
        members |-> gc.members.list, err |-> gc.members.err]

\* the loop over milestoneMaintainers (milestonestatus.go 114-121)
milestonestatus_found(milestoneMaintainers, login) ==
  \E i \in 1..Len(milestoneMaintainers) :
     ToLower(milestoneMaintainers[i].Login) = ToLower(login)

\* Faulty variant of statusKey: the argument is looked up as matched
statusKey_untrimmed(statusMatch) == statusMatch[2]

\* the key looked up in statusMap for one match (milestonestatus.go 129)
statusKey(statusMatch) == TrimSpace(statusMatch[2])

\* Faulty variant of milestonestatus_apply: the loop ends at the first AddLabel
\* that fails
RECURSIVE milestonestatus_apply_stopOnError(_, _, _, _, _, _)
milestonestatus_apply_stopOnError(gc, ev, org, repo, statusMatches, k) ==
  IF statusMatches = <<>> THEN <<>>
  ELSE IF TrimSpace(Head(statusMatches)[2]) \notin statusKeys
  THEN milestonestatus_apply_stopOnError(gc, ev, org, repo,
                                         Tail(statusMatches), k)
  ELSE <<CallAddLabel(org, repo, ev.Number,
                      statusMap(TrimSpace(Head(statusMatches)[2])),
                      MutationResult(gc, k + 1, "error: AddLabel"))>>
         \o IF k + 1 \in gc.failing THEN <<>>
            ELSE milestonestatus_apply_stopOnError(gc, ev, org, repo,
                                                   Tail(statusMatches), k + 1)

\* the loop over statusMatches (milestonestatus.go 128-136); k AddLabel calls
\* were made before
RECURSIVE milestonestatus_apply(_, _, _, _, _, _)
milestonestatus_apply(gc, ev, org, repo, statusMatches, k) ==
  IF statusMatches = <<>> THEN <<>>
  ELSE IF statusKey(Head(statusMatches)) \notin statusKeys
  THEN milestonestatus_apply(gc, ev, org, repo, Tail(statusMatches), k)
  ELSE <<CallAddLabel(org, repo, ev.Number,
                      statusMap(statusKey(Head(statusMatches))),
                      MutationResult(gc, k + 1, "error: AddLabel"))>>
         \o milestonestatus_apply(gc, ev, org, repo, Tail(statusMatches), k + 1)

\* handle once a command is matched: the maintainers and the requester
\* (milestonestatus.go 101-126, 137)
milestonestatus_authorize(gc, ev, repoMilestone_, statusMatches) ==
  LET org       == ev.Org
      repo      == ev.Repo
      milestone == lookupMilestone(repoMilestone_, org, repo)
      dm        == milestonestatus_determineMaintainers(gc, milestone, org)
  IN IF dm.err # nil THEN Ret(<<dm.call>>, dm.err)
     ELSE IF ~milestonestatus_found(dm.members, ev.User)
     THEN Ret(<<dm.call,
                CallCreateComment(org, repo, ev.Number,
                  Plain(milestonestatus_mustBeAuthorized(org,
                          milestone.MaintainersTeam,
                          milestone.MaintainersFriendlyName)),
                  gc.commentErr)>>,
              gc.commentErr)
     ELSE Ret(<<dm.call>>
                \o milestonestatus_apply(gc, ev, org, repo, statusMatches, 0),
              nil)

\* Faulty variant of milestonestatus_handle: the action of the event is not
\* looked at
milestonestatus_handle_anyAction(gc, ev, repoMilestone_) ==
  LET statusMatches == statusRegex(ev.Body)
  IN IF Len(statusMatches) = 0 THEN Ret(<<>>, nil)
     ELSE milestonestatus_authorize(gc, ev, repoMilestone_, statusMatches)

\* handle of package milestonestatus: the event and the commands
\* (milestonestatus.go 91-99)
milestonestatus_handle(gc, ev, repoMilestone_) ==
  IF ev.Action # GenericCommentActionCreated THEN Ret(<<>>, nil)
  ELSE LET statusMatches == statusRegex(ev.Body)
       IN IF Len(statusMatches) = 0 THEN Ret(<<>>, nil)
          ELSE milestonestatus_authorize(gc, ev, repoMilestone_, statusMatches)

-----------------------------------------------------------------------------
(* The inputs: events, configurations and the answers of the client *)

Actions == {"created", "edited", "deleted"}

Users == {"ALICE", "carol"}

\* where a comment is made: repository, issue number and permalink
Targets ==
  {[Org |-> "kubernetes", Repo |-> "kubernetes", Number |-> 1,
    HTMLURL |-> "https://github.com/kubernetes/kubernetes/issues/1#c"],
   [Org |-> "kubernetes", Repo |-> "test-infra", Number |-> 2,
    HTMLURL |-> "https://github.com/kubernetes/test-infra/pull/2#c"]}

MilestoneWords == {"clear", "v1.10"}
StatusWords == {"in-progress", "bogus-keyword"}

\* whole command lines, one of them with a trailing blank
MilestoneLines ==
  {<<"/milestone", SP, "clear">>, <<"/milestone", SP, "v1.10", SP>>,
   <<"/milestone", SP, "v1.9">>}

StatusLines ==
  {<<"/status", SP, "in-progress">>, <<"/status", SP, "in-review", SP>>,
   <<"/status", SP, "bogus-keyword">>}

\* n command lines, one per line
RECURSIVE LinesOf(_, _)
LinesOf(lines, n) ==
  IF n = 0 THEN {<<>>}
  ELSE IF n = 1 THEN lines
  ELSE {l \o <<NL>> \o rest : l \in lines, rest \in LinesOf(lines, n - 1)}

\* every body of at most MaxBodyLen tokens
ShortBodies(keyword, words) ==
  SeqsUpTo({keyword, SP, NL} \cup words, MaxBodyLen)

\* the short bodies, and one command line or two
MilestoneBodies ==
  ShortBodies("/milestone", MilestoneWords)
    \cup MilestoneLines
    \cup {l \o <<NL>> \o m : l \in MilestoneLines, m \in MilestoneLines}

\* the short bodies, and at most MaxLines command lines
StatusBodies ==
  ShortBodies("/status", StatusWords)
    \cup UNION {LinesOf(StatusLines, n) : n \in 1..MaxLines}

Events(bodies) ==
  {[Action |-> a, Body |-> b, User |-> u, Org |-> t.Org, Repo |-> t.Repo,
    Number |-> t.Number, HTMLURL |-> t.HTMLURL] :
     a \in Actions, b \in bodies, u \in Users, t \in Targets}

\* the zero value of github.GenericCommentEvent
NoEvent ==
  [Action |-> "", Body |-> <<>>, User |-> "", Org |-> "", Repo |-> "",
   Number |-> 0, HTMLURL |-> ""]

\* plugins.Configuration.RepoMilestone with an entry for
\* kubernetes/kubernetes and a default entry that names its team by id
RepoConfig ==
  [k \in {RepoKey("kubernetes", "kubernetes"), DefaultKey} |->
     IF k = DefaultKey
     THEN Milestone(7, "", "release manager")
     ELSE Milestone(0, "milestone-maintainers", "SIG lead")]

\* with a default entry alone
DefaultConfig ==
  [k \in {DefaultKey} |-> Milestone(9, "default-maintainers", "org owner")]

\* with no entry at all
EmptyConfig == <<>>

\* the configurations under which the events of a repository are handled
ConfigsOf(repo) ==
  IF repo = "kubernetes" THEN {RepoConfig, DefaultConfig}
  ELSE {RepoConfig, EmptyConfig}

TeamMember(login) == [Login |-> login]

MemberResponses ==
  {[err |-> "error: ListTeamMembers", list |-> <<>>]}
    \cup {[err |-> nil, list |-> l] :
            l \in {<<>>, <<TeamMember("carol")>>,
                   <<TeamMember("bob"), TeamMember("Alice")>>}}

\* github.Milestone values of the repository
MilestoneEntries ==
  {[Title |-> <<"v1.10">>, Number |-> 42], [Title |-> <<"v1.1">>, Number |-> 41],
   [Title |-> <<"clear">>, Number |-> 43], [Title |-> <<"v1.10">>, Number |-> 44]}

MilestoneResponses ==
  {[err |-> "error: ListMilestones", list |-> <<>>]}
    \cup {[err |-> nil, list |-> l] : l \in SeqsUpTo(MilestoneEntries, MaxMilestones)}

CommentResults == {nil, "error: CreateComment"}

Mutations == {"SetMilestone", "ClearMilestone", "AddLabel"}

\* A fake githubClient is the answer it gives to each call.  This one lists
\* no member and no milestone, and no call fails.
Quiet ==
  [members    |-> [err |-> nil, list |-> <<>>],
   milestones |-> [err |-> nil, list |-> <<>>],
   commentErr |-> nil,
   failing    |-> {}]

\* every answer the client may give
Answers ==
  [members |-> MemberResponses, milestones |-> MilestoneResponses,
   commentErr |-> CommentResults]

\* the clients that answer like gc but for the k-th call of cs, which they
\* answer in every way of `answers`
AnswersTo(answers, gc, cs, k) ==
  LET op == cs[k].op
  IN IF op = "ListTeamMembersBySlug"
     THEN {[gc EXCEPT !.members = m] : m \in answers.members}
     ELSE IF op = "ListMilestones"
     THEN {[gc EXCEPT !.milestones = m] : m \in answers.milestones}
     ELSE IF op = "CreateComment"
     THEN {[gc EXCEPT !.commentErr = c] : c \in answers.commentErr}
     ELSE LET j == Cardinality({i \in 1..k : cs[i].op \in Mutations})
          IN {gc, [gc EXCEPT !.failing = @ \cup {j}]}

\* handle of the plugin `name`
Handle(name, gc, ev, cfg) ==
  IF name = "milestone" THEN milestone_handle(gc, ev, cfg)
  ELSE milestonestatus_handle(gc, ev, cfg)

\* What handle may return on an event: gc answers the calls before the k-th,
\* the k-th call and the later ones are answered in every way.
RECURSIVE Outcomes(_, _, _, _, _, _)
Outcomes(name, answers, ev, cfg, gc, k) ==
  LET r == Handle(name, gc, ev, cfg)
  IN IF Len(r.calls) < k THEN {r}
     ELSE UNION {Outcomes(name, answers, ev, cfg, g, k + 1) :
                   g \in AnswersTo(answers, gc, r.calls, k)}

-----------------------------------------------------------------------------
(* The state machine: events are delivered to the two handlers *)

Init ==
  /\ plugin = ""
  /\ e = NoEvent
  /\ repoMilestone = <<>>
  /\ calls = <<>>
  /\ err = nil
  /\ history = <<>>

\* Faulty variant of Comment: a command that was just handled with a
\* SetMilestone call is not handled again
Comment_dedup(name, answers, ev, cfg) ==
  \E r \in Outcomes(name, answers, ev, cfg, Quiet, 1) :
     LET last == history[Len(history)]
         seen == /\ history # <<>>
                 /\ last.e = ev
                 /\ \E i \in 1..Len(last.calls) : last.calls[i].op = "SetMilestone"
     IN /\ plugin' = name
        /\ e' = ev
        /\ repoMilestone' = cfg
        /\ calls' = IF seen THEN <<>> ELSE r.calls
        /\ err' = IF seen THEN nil ELSE r.err

\* handleGenericComment of the plugin `name` on one event
Comment(name, answers, ev, cfg) ==
  \E r \in Outcomes(name, answers, ev, cfg, Quiet, 1) :
     /\ plugin' = name
     /\ e' = ev
     /\ repoMilestone' = cfg
     /\ calls' = r.calls
     /\ err' = r.err

\* no event is being handled
Idle == plugin = ""

HandleMilestone ==
  /\ Idle
  /\ \E ev \in Events(MilestoneBodies) : \E cfg \in ConfigsOf(ev.Repo) :
       Comment("milestone", Answers, ev, cfg)
  /\ UNCHANGED history

HandleStatus ==
  /\ Idle
  /\ \E ev \in Events(StatusBodies) : \E cfg \in ConfigsOf(ev.Repo) :
       Comment("milestonestatus", Answers, ev, cfg)
  /\ UNCHANGED history

\* the handler has returned: the event is discarded, nothing is kept
Discard ==
  /\ ~Idle
  /\ plugin' = ""
  /\ e' = NoEvent
  /\ repoMilestone' = <<>>
  /\ calls' = <<>>
  /\ err' = nil
  /\ UNCHANGED history

Next == HandleMilestone \/ HandleStatus \/ Discard

Spec == Init /\ [][Next]_vars

-----------------------------------------------------------------------------
(* Sequences of events: every invocation is recorded in history *)

SeqTarget ==
  CHOOSE t \in Targets : t.Repo = "kubernetes"

SeqEvent(a, b, u) ==
  [Action |-> a, Body |-> b, User |-> u, Org |-> SeqTarget.Org,
   Repo |-> SeqTarget.Repo, Number |-> SeqTarget.Number,
   HTMLURL |-> SeqTarget.HTMLURL]

SeqMilestoneEvents ==
  {SeqEvent(a, b, u) :
     a \in Actions, u \in Users,
     b \in {<<"/milestone", SP, "v1.10">>, <<"v1.10">>}}

SeqStatusEvents ==
  {SeqEvent(a, b, u) :
     a \in Actions, u \in Users,
     b \in {<<"/status", SP, "in-progress", NL, "/status", SP, "in-review">>,
            <<"/status", SP, "bogus-keyword">>}}

\* the requester is a maintainer; the repository has one milestone or none
SeqAnswers ==
  [members    |-> {[err |-> nil, list |-> <<TeamMember("bob"), TeamMember("Alice")>>]},
   milestones |-> {[err |-> nil, list |-> l] :
                     l \in {<<>>, <<[Title |-> <<"v1.10">>, Number |-> 42]>>,
                            <<[Title |-> <<"v1.10">>, Number |-> 44]>>}},
   commentErr |-> {nil}]

Record ==
  history' = Append(history,
                    [plugin |-> plugin', e |-> e', calls |-> calls', err |-> err'])

SeqHandleMilestone ==
  /\ Idle
  /\ Len(history) < MaxEvents
  /\ \E ev \in SeqMilestoneEvents : Comment("milestone", SeqAnswers, ev, RepoConfig)
  /\ Record

SeqHandleStatus ==
  /\ Idle
  /\ Len(history) < MaxEvents
  /\ \E ev \in SeqStatusEvents : Comment("milestonestatus", SeqAnswers, ev, RepoConfig)
  /\ Record

SeqNext == SeqHandleMilestone \/ SeqHandleStatus \/ Discard

SpecSeq == Init /\ [][SeqNext]_vars

-----------------------------------------------------------------------------
(* What the claims speak of, read off the recorded invocation *)

Handled == plugin # ""

Created == e.Action = GenericCommentActionCreated

CallsOf(cs, ops) == SelectSeq(cs, LAMBDA c : c.op \in ops)

NumCalls(ops) == Len(CallsOf(calls, ops))

\* the group of the repository of the event
Group == lookupMilestone(repoMilestone, e.Org, e.Repo)

\* the members of the group were listed
Resolved ==
  /\ Handled
  /\ Len(calls) >= 1
  /\ calls[1].op = "ListTeamMembersBySlug"
  /\ calls[1].err = nil

\* the requester is one of the listed members, whatever the case of letters
IsMember ==
  \E i \in 1..Len(calls[1].list) :
     ToLower(calls[1].list[i].Login) = ToLower(e.User)

Unauthorized == Resolved /\ ~IsMember
Authorized == Resolved /\ IsMember

\* the milestones of the repository were listed
Listed ==
  \E i \in 1..Len(calls) : calls[i].op = "ListMilestones" /\ calls[i].err = nil

LiveMilestones == CallsOf(calls, {"ListMilestones"})[1].list

LiveTitles == {LiveMilestones[i].Title : i \in 1..Len(LiveMilestones)}

\* the argument of the /milestone command of the event
Argument == milestoneRegex(e.Body)[2]

MilestoneRequest == plugin = "milestone" /\ Authorized

\* the lines of a body
RECURSIVE SplitLines(_)
SplitLines(b) ==
  IF NL \notin Range(b) THEN <<b>>
  ELSE LET i == Min({k \in 1..Len(b) : b[k] = NL})
       IN <<SubSeq(b, 1, i - 1)>> \o SplitLines(SubSeq(b, i + 1, Len(b)))

\* some line of the body, taken alone, matches the trigger pattern
HasTriggerLine(name, b) ==
  \E i \in 1..Len(SplitLines(b)) :
     IF name = "milestone" THEN milestoneRegex(SplitLines(b)[i]) # <<>>
     ELSE statusRegex(SplitLines(b)[i]) # <<>>

\* the trimmed arguments of the /status commands of a body that are
\* recognized keys, in document order
RecognizedKeys(b) ==
  LET m == statusRegex(b)
  IN SelectSeq([i \in 1..Len(m) |-> TrimSpace(m[i][2])],
               LAMBDA k : k \in {<<"approved-for-milestone">>, <<"in-progress">>,
                                 <<"in-review">>})

\* C1: when the requester is not a member of the resolved group (logins
\* compared without regard to case), the handler, milestone or status, posts
\* exactly one comment, the comment holds the slug of the group and the
\* friendly name of the responsible role, and no mutation call is made.
C1_UnauthorizedOneComment ==
  Unauthorized =>
    /\ NumCalls({"CreateComment"}) = 1
    /\ NumCalls(Mutations) = 0
    /\ LET text == CallsOf(calls, {"CreateComment"})[1].comment.text
       IN /\ Group.MaintainersTeam \in Range(text)
          /\ Group.MaintainersFriendlyName \in Range(text)

C1_Witness ==
  /\ Unauthorized
  /\ plugin = "milestonestatus"
  /\ e.User = "ALICE"
  /\ calls[1].list = <<TeamMember("carol")>>
  /\ Group.MaintainersTeam = "milestone-maintainers"
  /\ Group.MaintainersFriendlyName = "SIG lead"
  /\ NumCalls({"CreateComment"}) = 1

\* C2: a created comment whose body has no line matching the trigger pattern
\* causes no call on the client and no error.
C2_NoTriggerLineNoCalls ==
  (Handled /\ Created /\ ~HasTriggerLine(plugin, e.Body)) =>
    (calls = <<>> /\ err = nil)

\* the mutation calls of the recorded invocations
RECURSIVE TotalMutations(_)
TotalMutations(h) ==
  IF h = <<>> THEN 0
  ELSE Len(CallsOf(Head(h).calls, Mutations)) + TotalMutations(Tail(h))

\* the occurrences of the command in a created event: the /milestone command
\* is read once in a body, every /status command of a body is read
Commands(inv) ==
  IF inv.e.Action # GenericCommentActionCreated THEN 0
  ELSE IF inv.plugin = "milestone"
  THEN (IF milestoneRegex(inv.e.Body) # <<>> THEN 1 ELSE 0)
  ELSE Len(statusRegex(inv.e.Body))

RECURSIVE TotalCommands(_)
TotalCommands(h) ==
  IF h = <<>> THEN 0 ELSE Commands(Head(h)) + TotalCommands(Tail(h))

\* the created events of a sequence that carry a command
CommandEvents(h) == {i \in 1..Len(h) : Commands(h[i]) > 0}

\* C3 as stated: an event that is not created causes no call and no error,
\* and in a sequence of events the mutations are never more than the created
\* events that carry a command.
C3_MutationsAtMostEvents ==
  /\ (Handled /\ ~Created) => (calls = <<>> /\ err = nil)
  /\ TotalMutations(history) <= Cardinality(CommandEvents(history))

\* C3, amended: an event that is not created causes no call and no error, and
\* in a sequence of events the mutations are never more than the commands
\* carried by the created events (one per body for /milestone, one per
\* matched /status of a body).
C3_MutationsAtMostCommands ==
  /\ (Handled /\ ~Created) => (calls = <<>> /\ err = nil)
  /\ TotalMutations(history) <= TotalCommands(history)

C3_Witness ==
  /\ Len(history) = 2
  /\ history[1].e.Action = "edited"
  /\ milestoneRegex(history[1].e.Body) # <<>>
  /\ history[1].calls = <<>>
  /\ history[2].plugin = "milestonestatus"
  /\ Len(CallsOf(history[2].calls, Mutations)) = 2
  /\ TotalCommands(history) = 2

LastNumber(milestones, title) ==
  milestones[Max({i \in 1..Len(milestones) : milestones[i].Title = title})].Number

\* C5: an authorized /milestone whose argument is not "clear" and is a title
\* of the live list makes exactly one SetMilestone call, on the issue of the
\* event and with the number the title maps to, no ClearMilestone call and no
\* comment; with the milestones v1.10: 42 and v1.1: 41, "/milestone v1.10"
\* sets 42.
C5_SetsListedMilestone ==
  (MilestoneRequest /\ Argument # <<"clear">> /\ Listed /\ Argument \in LiveTitles) =>
    /\ NumCalls({"SetMilestone"}) = 1
    /\ NumCalls({"ClearMilestone", "CreateComment"}) = 0
    /\ LET set == CallsOf(calls, {"SetMilestone"})[1]
       IN /\ set.org = e.Org /\ set.repo = e.Repo /\ set.number = e.Number
          /\ set.milestoneNum = LastNumber(LiveMilestones, Argument)
          /\ (/\ e.Body = <<"/milestone", SP, "v1.10">>
              /\ LiveMilestones = <<[Title |-> <<"v1.10">>, Number |-> 42],
                                    [Title |-> <<"v1.1">>, Number |-> 41]>>)
               => set.milestoneNum = 42

C5_Witness ==
  /\ MilestoneRequest /\ Listed
  /\ Argument = <<"v1.10">>
  /\ LiveMilestones = <<[Title |-> <<"v1.10">>, Number |-> 42],
                        [Title |-> <<"v1.10">>, Number |-> 44]>>
  /\ NumCalls({"SetMilestone"}) = 1
  /\ e.Number = 2

\* the list of options of a rejection of a title
Options(text) == SubSeq(text, 2, Len(text) - 6)

\* s holds every title once, in back-ticks, ascending in the order of strings
SortedOptions(s, titles) ==
  /\ Range(s) = {<<BQ>> \o t \o <<BQ>> : t \in titles}
  /\ \A i \in 1..(Len(s) - 1) : StringLess(s[i], s[i + 1])

C7_OneLabelPerRecognizedKey ==
  (plugin = "milestonestatus" /\ Authorized) =>
    LET keys   == RecognizedKeys(e.Body)
        labels == CallsOf(calls, {"AddLabel"})
    IN /\ Len(labels) = Len(keys)
       /\ \A i \in 1..Len(keys) :
            /\ labels[i].label = <<"status/">> \o keys[i]
            /\ labels[i].org = e.Org /\ labels[i].repo = e.Repo
            /\ labels[i].number = e.Number
       /\ Len(calls) = 1 + Len(keys)
       /\ err = nil
       /\ e.Body = <<"/status", SP, "in-progress", NL, "/status", SP, "bogus-keyword">>
            => (Len(labels) = 1 /\ labels[1].label = <<"status/", "in-progress">>)

C7_Witness ==
  /\ plugin = "milestonestatus" /\ Authorized
  /\ e.Body = <<"/status", SP, "in-review", SP, NL, "/status", SP, "bogus-keyword">>
  /\ NumCalls({"AddLabel"}) = 1
  /\ Len(calls) = 2

\* C8: when the listing of the members, by either handler, or the listing of
\* the milestones fails, the handler returns that failure, and the invocation
\* makes no mutation call and posts no comment.
C8_ResolutionFailureAborts ==
  \A i \in 1..Len(calls) :
     (calls[i].op \in {"ListTeamMembersBySlug", "ListMilestones"} /\ calls[i].err # nil) =>
       /\ err = calls[i].err
       /\ NumCalls(Mutations \cup {"CreateComment"}) = 0
       /\ i = Len(calls)

C8_Witness ==
  /\ plugin = "milestone"
  /\ Authorized
  /\ Len(calls) = 2
  /\ calls[2].op = "ListMilestones"
  /\ calls[2].err = "error: ListMilestones"
  /\ err = "error: ListMilestones"

\* a mutation call of the invocation failed
MutationFailed ==
  \E i \in 1..Len(calls) : calls[i].op \in Mutations /\ calls[i].err # nil

\* C9: when SetMilestone, ClearMilestone or AddLabel fails, the handler
\* returns no error and posts no comment.
C9_MutationFailureSwallowed ==
  MutationFailed => (err = nil /\ NumCalls({"CreateComment"}) = 0)

C9_Witness ==
  /\ plugin = "milestone"
  /\ NumCalls({"SetMilestone"}) = 1
  /\ CallsOf(calls, {"SetMilestone"})[1].err = "error: SetMilestone"
  /\ err = nil

\* C10: in the status handler, AddLabel is attempted for every recognized
\* /status of an authorized comment, whichever of the AddLabel calls failed.
C10_FailedLabelDoesNotAbort ==
  (plugin = "milestonestatus" /\ Authorized) =>
    \A i \in 1..NumCalls({"AddLabel"}) :
       CallsOf(calls, {"AddLabel"})[i].err # nil =>
         NumCalls({"AddLabel"}) = Len(RecognizedKeys(e.Body))

C10_Witness ==
  /\ plugin = "milestonestatus" /\ Authorized
  /\ Len(RecognizedKeys(e.Body)) = 2
  /\ NumCalls({"AddLabel"}) = 2
  /\ CallsOf(calls, {"AddLabel"})[1].err # nil
  /\ CallsOf(calls, {"AddLabel"})[2].err = nil

\* the entry of the configuration that the claims name for the event: the one
\* of the repository when there is one, else the default one
ConfigHasEntry ==
  \/ RepoKey(e.Org, e.Repo) \in DOMAIN repoMilestone
  \/ DefaultKey \in DOMAIN repoMilestone

EffectiveEntry ==
  IF RepoKey(e.Org, e.Repo) \in DOMAIN repoMilestone
  THEN repoMilestone[RepoKey(e.Org, e.Repo)]
  ELSE repoMilestone[DefaultKey]

\* the first call of the invocation lists members by the slug, or by the id
ListsBySlug(slug) ==
  /\ "teamSlug" \in DOMAIN calls[1]
  /\ calls[1].teamSlug = slug

ListsByID(id) ==
  /\ "id" \in DOMAIN calls[1]
  /\ calls[1].id = id

\* C11: in both handlers the members are listed by slug, through
\* ListTeamMembersBySlug, when the slug of the group is not empty, slug and id
\* both set included, and else by the numeric id through the capability that
\* lists by id, ListTeamMembers; both listings ask for the role "all".
C11_ListsBySlugElseByID ==
  (Handled /\ Len(calls) >= 1 /\ ConfigHasEntry) =>
    /\ calls[1].role = RoleAll
    /\ IF Group.MaintainersTeam # ""
       THEN calls[1].op = "ListTeamMembersBySlug" /\ ListsBySlug(Group.MaintainersTeam)
       ELSE calls[1].op = "ListTeamMembers" /\ ListsByID(Group.MaintainersID)

\* C12: in both handlers the group used for an event is the entry of the
\* configuration under org/repo when there is one, and else the entry under
\* the empty key: the members listed are those of that entry, and a rejection
\* names its team and its friendly name.
C12_EntryOfRepositoryElseDefault ==
  (Handled /\ Len(calls) >= 1 /\ ConfigHasEntry) =>
    /\ IF EffectiveEntry.MaintainersTeam # ""
       THEN ListsBySlug(EffectiveEntry.MaintainersTeam)
       ELSE ListsByID(EffectiveEntry.MaintainersID)
    /\ (Len(calls) = 2 /\ calls[2].op = "CreateComment" /\ ~IsMember) =>
         /\ calls[2].comment.text[4] = EffectiveEntry.MaintainersTeam
         /\ calls[2].comment.text[10] = EffectiveEntry.MaintainersFriendlyName

C12_Witness ==
  /\ Handled /\ Created
  /\ RepoKey(e.Org, e.Repo) \in DOMAIN repoMilestone
  /\ DefaultKey \in DOMAIN repoMilestone
  /\ repoMilestone[DefaultKey] # repoMilestone[RepoKey(e.Org, e.Repo)]
  /\ plugin = "milestonestatus"
  /\ Len(calls) = 2
  /\ ListsBySlug("milestone-maintainers")
  /\ calls[2].op = "CreateComment"
  /\ calls[2].comment.text[10] = "SIG lead"

\* a command of the plugin is read in the body of the event
CommandMatched ==
  IF plugin = "milestone" THEN milestoneRegex(e.Body) # <<>>
  ELSE statusRegex(e.Body) # <<>>

\* C13: when the configuration has no entry for org/repo and no entry under
\* the empty key, a handler that reads a command returns an error and makes no
\* call: no listing of the members of a group with empty slug and id 0, no
\* comment, no mutation.
C13_NoEntryIsAnError ==
  (Handled /\ Created /\ CommandMatched /\ ~ConfigHasEntry) =>
    (calls = <<>> /\ err # nil)

\* the handler answered the requester with the rejection of mustBeAuthorized
Rejected ==
  /\ Len(calls) = 2
  /\ calls[2].op = "CreateComment"
  /\ calls[2].comment.text[1] = "You must be a member of the ["

\* C14: in both handlers the requester is taken for authorized if and only if
\* its login equals, letters of either case taken for the same, the login of
\* one of the listed members; an empty list authorizes nobody.
C14_AuthorizedIffMemberIgnoringCase ==
  Resolved =>
    /\ Rejected <=> ~IsMember
    /\ calls[1].list = <<>> => Rejected

C14_Witness ==
  /\ Resolved
  /\ plugin = "milestone"
  /\ e.User = "ALICE"
  /\ calls[1].list = <<TeamMember("bob"), TeamMember("Alice")>>
  /\ ~Rejected
  /\ Len(calls) >= 2
  /\ calls[2].op = "ListMilestones"

\* a recorded invocation of the milestone handler on a created comment that
\* carries a /milestone command
MilestoneCommand(inv) ==
  /\ inv.plugin = "milestone"
  /\ inv.e.Action = GenericCommentActionCreated
  /\ milestoneRegex(inv.e.Body) # <<>>

\* the requester of a recorded invocation is one of the members it listed
MemberOf(inv) ==
  \E k \in 1..Len(inv.calls[1].list) :
     ToLower(inv.calls[1].list[k].Login) = ToLower(inv.e.User)

TitlesOf(list) == {list[k].Title : k \in 1..Len(list)}

\* a recorded invocation listed the members, listed the milestones and set
\* the milestone that its own listing gives for the title
SetsFromOwnListing(inv) ==
  /\ Len(inv.calls) = 3
  /\ inv.calls[1].op = "ListTeamMembersBySlug"
  /\ inv.calls[2].op = "ListMilestones"
  /\ inv.calls[3].op = "SetMilestone"
  /\ inv.calls[3].milestoneNum =
       LastNumber(inv.calls[2].list, milestoneRegex(inv.e.Body)[2])

\* C15: nothing is kept from one invocation to the next.  Every invocation on
\* a /milestone command lists the members again; when the requester is a
\* member it lists the milestones again; when the title is in that listing it
\* makes its own SetMilestone call with the number of that listing.  The same
\* event handled twice against the same listing gives two SetMilestone calls
\* with the same number,
\* and after a change of the listing the later event is resolved against the
\* later listing.
C15_NoStateBetweenInvocations ==
  /\ \A i \in 1..Len(history) :
       MilestoneCommand(history[i]) =>
         /\ Len(history[i].calls) >= 1
         /\ history[i].calls[1].op = "ListTeamMembersBySlug"
         /\ MemberOf(history[i]) =>
              /\ Len(history[i].calls) >= 2
              /\ history[i].calls[2].op = "ListMilestones"
              /\ milestoneRegex(history[i].e.Body)[2]
                    \in TitlesOf(history[i].calls[2].list)
                   => SetsFromOwnListing(history[i])
  /\ \A i, j \in 1..Len(history) :
       (/\ i < j
        /\ MilestoneCommand(history[i]) /\ SetsFromOwnListing(history[i])
        /\ history[j].plugin = "milestone" /\ history[j].e = history[i].e)
         => /\ SetsFromOwnListing(history[j])
               \/ milestoneRegex(history[j].e.Body)[2]
                    \notin TitlesOf(history[j].calls[2].list)
            /\ history[j].calls[2].list = history[i].calls[2].list
                 => /\ SetsFromOwnListing(history[j])
                    /\ history[j].calls[3].milestoneNum
                         = history[i].calls[3].milestoneNum

C15_Witness ==
  /\ Len(history) = 2
  /\ MilestoneCommand(history[1])
  /\ history[2].plugin = "milestone"
  /\ history[2].e = history[1].e
  /\ SetsFromOwnListing(history[1])
  /\ SetsFromOwnListing(history[2])
  /\ history[1].calls[2].list = history[2].calls[2].list
  /\ history[1].calls[3].milestoneNum = 42
  /\ history[2].calls[3].milestoneNum = 42

\* C16: every comment posted to reject a request, for want of authorization
\* in the milestone handler and in the status handler, or for an invalid
\* title in the milestone handler, is a reply that quotes the comment it
\* answers: its body, its permalink and its author.
C16_RejectionsQuoteTheComment ==
  \A i \in 1..Len(calls) :
     calls[i].op = "CreateComment" =>
       /\ calls[i].comment.kind = "response"
       /\ calls[i].comment.body = e.Body
       /\ calls[i].comment.url = e.HTMLURL
       /\ calls[i].comment.login = e.User

\* C17 as stated: an authorized /milestone clear reaches ClearMilestone
\* whatever the listing of the milestones gives, a failure included.
C17_ClearWhateverTheListing ==
  (MilestoneRequest /\ Argument = clearKeyword) =>
    \E i \in 1..Len(calls) : calls[i].op = "ClearMilestone"

\* C17, amended: an authorized /milestone clear first lists the milestones;
\* when the listing succeeds ClearMilestone is called whatever the listing
\* holds, and when the listing fails the handler returns that failure and
\* ClearMilestone is not called.
C17_ClearAfterListing ==
  (MilestoneRequest /\ Argument = clearKeyword) =>
    /\ Len(calls) >= 2
    /\ calls[2].op = "ListMilestones"
    /\ IF calls[2].err = nil
       THEN Len(calls) = 3 /\ calls[3].op = "ClearMilestone" /\ err = nil
       ELSE Len(calls) = 2 /\ err = calls[2].err

C17_Witness ==
  /\ MilestoneRequest /\ Argument = clearKeyword
  /\ Len(calls) = 2
  /\ calls[2].op = "ListMilestones"
  /\ calls[2].err = "error: ListMilestones"
  /\ err = "error: ListMilestones"
  /\ NumCalls({"ClearMilestone"}) = 0

\* C18: the map built from the listed milestones has every title of the list
\* as a key, and a title that several milestones have maps to the number of
\* the last of them in the list: a /milestone with a listed title sets that
\* number, and a rejection names every title of the list.
C18_LastWriteWins ==
  (MilestoneRequest /\ Listed) =>
    LET m == BuildMilestoneMap(LiveMilestones)
    IN /\ DOMAIN m = LiveTitles
       /\ \A t \in LiveTitles : m[t] = LastNumber(LiveMilestones, t)
       /\ (Argument # clearKeyword /\ Argument \in LiveTitles) =>
            /\ NumCalls({"SetMilestone"}) = 1
            /\ CallsOf(calls, {"SetMilestone"})[1].milestoneNum
                 = LastNumber(LiveMilestones, Argument)
       /\ (Argument # clearKeyword /\ Argument \notin LiveTitles) =>
            /\ NumCalls({"CreateComment"}) = 1
            /\ LET text == CallsOf(calls, {"CreateComment"})[1].comment.text
               IN \A t \in LiveTitles :
                    \E k \in 1..(Len(Options(text)) - Len(t) - 1) :
                       SubSeq(Options(text), k, k + Len(t) + 1)
                         = <<BQ>> \o t \o <<BQ>>

C18_Witness ==
  /\ MilestoneRequest /\ Listed
  /\ Argument = <<"v1.10">>
  /\ LiveMilestones = <<[Title |-> <<"v1.10">>, Number |-> 44],
                        [Title |-> <<"v1.10">>, Number |-> 42]>>
  /\ NumCalls({"SetMilestone"}) = 1
  /\ CallsOf(calls, {"SetMilestone"})[1].milestoneNum = 42

\* C19: one invocation of the milestone handler, whatever the body and the
\* answers of the client, lists the members at most once, lists the
\* milestones at most once, and makes at most one call among CreateComment,
\* SetMilestone and ClearMilestone; the milestones are listed only as the
\* second call, after the requester was found among the members.
C19_AtMostOneOfEachCall ==
  plugin = "milestone" =>
    /\ NumCalls({"ListTeamMembersBySlug"}) <= 1
    /\ NumCalls({"ListMilestones"}) <= 1
    /\ NumCalls({"CreateComment", "SetMilestone", "ClearMilestone"}) <= 1
    /\ \A i \in 1..Len(calls) :
         calls[i].op = "ListMilestones" => (i = 2 /\ Authorized)

C19_Witness ==
  /\ plugin = "milestone"
  /\ Len(SplitLines(e.Body)) = 2
  /\ \A i \in 1..2 : milestoneRegex(SplitLines(e.Body)[i]) # <<>>
  /\ milestoneRegex(SplitLines(e.Body)[1])[2] # milestoneRegex(SplitLines(e.Body)[2])[2]
  /\ Authorized
  /\ Len(calls) = 3
  /\ NumCalls({"SetMilestone"}) = 1

\* C20: a comment posted to reject a request, by either handler, is the last
\* call and the only comment of the invocation, the handler returns what
\* CreateComment returned, no error when the comment was posted and the
\* failure when it was not, and no mutation call is made.
C20_RejectionReturnsCommentResult ==
  \A i \in 1..Len(calls) :
     calls[i].op = "CreateComment" =>
       /\ i = Len(calls)
       /\ NumCalls({"CreateComment"}) = 1
       /\ err = calls[i].err
       /\ NumCalls(Mutations) = 0

C20_Witness ==
  /\ MilestoneRequest /\ Listed
  /\ Argument \notin LiveTitles
  /\ Len(calls) = 3
  /\ calls[3].op = "CreateComment"
  /\ calls[3].err = "error: CreateComment"
  /\ err = "error: CreateComment"

====
